---- MODULE Spec2Model ----
(***************************************************************************)
(* State-machine model of the webby-test front-end: the todo view-model    *)
(* (src/src/TodoList.tsx, first component of the file) and the toast       *)
(* provider (src/unnamed/part_002, ToastContext).                          *)
(*                                                                         *)
(* Strings typed by the user are sequences of one-character strings, so    *)
(* that trim(), toLowerCase() and includes() are computed, not assumed.    *)
(* Date.now() is the variable now; it only changes in Tick, so two         *)
(* handlers that run within the same clock reading see the same value.     *)
(* A React handler together with the re-render and the useEffect           *)
(* callbacks it triggers is one action.  A setTimeout callback is an       *)
(* action of its own (TimerFire).                                          *)
(***************************************************************************)
EXTENDS Integers, Sequences, FiniteSets, Bags, TLC

\* ---------------------------------------------------------------- bounds
MaxTodos == 2
MaxNow == 2
MaxToasts == 2

\* ------------------------------------------------------------- constants
STORAGE_KEY == "todos"
ORDER_STORAGE_KEY == "todo-order"
FILTER_STORAGE_KEY == "todo-filter"
DUE_DATE_FILTER_STORAGE_KEY == "todo-due-date-filter"
CATEGORY_FILTER_STORAGE_KEY == "todo-category-filter"
PRIORITY_FILTER_STORAGE_KEY == "todo-priority-filter"
SORT_STORAGE_KEY == "todo-sort"

\* JavaScript's undefined (an absent optional field) and null.
undefined == "undefined"
null == -1
nullPosition == "null"

CategoryType == {"work", "personal", "shopping", "health", "other"}
PriorityType == {"high", "medium", "low"}
FilterType == {"all", "active", "completed"}
DueDateFilterType == {"all", "today", "overdue", "upcoming"}
PriorityFilterType == {"all", "high", "medium-plus", "high-only"}
SortType == {"manual", "priority", "dueDate", "created"}

VARIABLES
    todos, inputValue, dueDateValue, categoryValue, priorityValue,
    searchQuery, filter, dueDateFilter, categoryFilter, priorityFilter,
    sortBy, todoOrder, draggedId, dropTargetId, dropPosition, draggedRef,
    dataTransfer, editingId, editValue,
    storage,
    toasts, timers,
    now, tzOffset,
    lastOp,
    theme, isHelpModalOpen, isMac, actionsRun,
    contactName, contactEmail, contactMessage, errors, touched, submitted,
    streakData, streakSaved,
    count, incs, decs

todoVars == <<todos, inputValue, dueDateValue, categoryValue, priorityValue,
              searchQuery, filter, dueDateFilter, categoryFilter,
              priorityFilter, sortBy, todoOrder, editingId, editValue>>
dragVars == <<draggedId, dropTargetId, dropPosition, draggedRef, dataTransfer>>
toastVars == <<toasts, timers>>
envVars == <<now, tzOffset>>
appVars == <<theme, isHelpModalOpen, isMac, actionsRun>>
contactVars == <<contactName, contactEmail, contactMessage, errors, touched, submitted>>
statsVars == <<streakData, streakSaved>>
counterVars == <<count, incs, decs>>
pageVars == <<appVars, contactVars, statsVars, counterVars>>
vars == <<todoVars, dragVars, storage, toastVars, envVars, lastOp, pageVars>>

\* ---------------------------------------------------------------- strings
\* String.prototype.trim on a sequence of characters.
RECURSIVE TrimStart(_)
TrimStart(s) ==
    IF s # <<>> /\ Head(s) = " " THEN TrimStart(Tail(s)) ELSE s

RECURSIVE TrimEnd(_)
TrimEnd(s) ==
    IF s # <<>> /\ s[Len(s)] = " " THEN TrimEnd(SubSeq(s, 1, Len(s) - 1)) ELSE s

\* Mutation: the input is used untrimmed.
trim_Mutant(s) == s

trim(s) == TrimEnd(TrimStart(s))

\* String.prototype.toLowerCase over the model's alphabet.
LowerChar(c) == IF c = "A" THEN "a" ELSE IF c = "B" THEN "b" ELSE c
toLowerCase(s) == [i \in 1..Len(s) |-> LowerChar(s[i])]

\* String.prototype.includes: q occurs in s as a contiguous substring.
includes(s, q) ==
    \E i \in 0..(Len(s) - Len(q)) : SubSeq(s, i + 1, i + Len(q)) = q

\* ------------------------------------------------------------------ dates
MS_PER_HOUR == 3600000
MS_PER_DAY == 24 * MS_PER_HOUR

\* The values an <input type="date"> can hand to the component.
DateStrings == {"1970-01-02", "1970-01-03", "1970-01-04"}

\* new Date("YYYY-MM-DD").getTime(): a date-only ISO string is parsed as
\* midnight UTC of that day.
DayNumber(s) ==
    CASE s = "1970-01-02" -> 1
      [] s = "1970-01-03" -> 2
      [] s = "1970-01-04" -> 3
ParseDate(s) == DayNumber(s) * MS_PER_DAY

\* getStartOfDay: setHours(0,0,0,0) truncates to midnight in the LOCAL zone;
\* tz is the zone's offset east of UTC in milliseconds.
getStartOfDay(t, tz) == t - ((t + tz) % MS_PER_DAY)

isToday(t, clock, tz) == getStartOfDay(t, tz) = getStartOfDay(clock, tz)

\* ------------------------------------------------------------------- JSON
\* JSON.stringify of one todo: a property whose value is undefined is left
\* out of the object.
StringifyTodo(t) ==
    LET keys == {"id", "text", "completed", "priority"}
                \cup (IF t.dueDate # undefined THEN {"dueDate"} ELSE {})
                \cup (IF t.category # undefined THEN {"category"} ELSE {})
    IN [k \in keys |-> t[k]]

StringifyTodos(list) == [i \in 1..Len(list) |-> StringifyTodo(list[i])]

\* JSON.stringify of the number array todoOrder.
StringifyOrder(order) == order

\* localStorage.setItem
setItem(store, key, value) ==
    [k \in (DOMAIN store) \cup {key} |-> IF k = key THEN value ELSE store[k]]

\* The persistence effects that run after a render in which todos and
\* todoOrder have the given values.
PersistTodos(store, list) == setItem(store, STORAGE_KEY, StringifyTodos(list))
\* Mutation: the effect on todoOrder is missing.
PersistOrder_Mutant(store, order) == store

PersistOrder(store, order) == setItem(store, ORDER_STORAGE_KEY, StringifyOrder(order))

\* ----------------------------------------------------------------- toasts
\* ToastProvider.addToast: the toast gets the clock value as id, is appended
\* to the queue, and a timer that will call removeToast(id) is registered.
ToastsAfterAdd(queue, message, type, clock) ==
    Append(queue, [id |-> clock, message |-> message, type |-> type])

\* Mutation: addToast registers no timer.
TimersAfterAdd_Mutant(pending, clock) == pending

TimersAfterAdd(pending, clock) == Append(pending, clock)

\* ToastProvider.removeToast: prev.filter(toast => toast.id !== id)
removeToast(queue, id) == SelectSeq(queue, LAMBDA t : t.id # id)

\* --------------------------------------------------------------- ordering
\* getPriorityOrder (high = 0, medium = 1, low = 2)
getPriorityOrder(priority) ==
    CASE priority = "high" -> 0
      [] priority = "medium" -> 1
      [] priority = "low" -> 2
      [] OTHER -> 2

\* orderMap: todoOrder.forEach((id, index) => orderMap.set(id, index)); a
\* later occurrence of an id overwrites an earlier one.
orderMapHas(order, id) == \E i \in 1..Len(order) : order[i] = id
orderMapGet(order, id) ==
    CHOOSE i \in 1..Len(order) :
        order[i] = id /\ \A j \in 1..Len(order) : order[j] = id => j <= i

\* The comparator handed to Array.prototype.sort for each sort mode: a
\* negative result puts a first, a positive one puts b first.
Compare(a, b, mode, order) ==
    CASE mode = "priority" ->
            IF getPriorityOrder(a.priority) # getPriorityOrder(b.priority)
            THEN getPriorityOrder(a.priority) - getPriorityOrder(b.priority)
            ELSE b.id - a.id
      [] mode = "dueDate" ->
            IF a.dueDate # undefined /\ b.dueDate = undefined THEN -1
            ELSE IF a.dueDate = undefined /\ b.dueDate # undefined THEN 1
            ELSE IF a.dueDate # undefined /\ b.dueDate # undefined
                    /\ ParseDate(a.dueDate) # ParseDate(b.dueDate)
                 THEN ParseDate(a.dueDate) - ParseDate(b.dueDate)
            ELSE b.id - a.id
      [] mode = "created" -> b.id - a.id
      [] mode = "manual" ->
            IF ~orderMapHas(order, a.id) /\ ~orderMapHas(order, b.id)
            THEN b.id - a.id
            ELSE IF ~orderMapHas(order, a.id) THEN -1
            ELSE IF ~orderMapHas(order, b.id) THEN 1
            ELSE orderMapGet(order, a.id) - orderMapGet(order, b.id)
      [] OTHER -> 0

\* Array.prototype.sort is stable: x, which follows every element of the
\* sorted prefix s in the input, is placed after the last element that
\* does not compare greater than it.
RECURSIVE SortInsert(_, _, _, _)
SortInsert(s, x, mode, order) ==
    IF s # <<>> /\ Compare(s[Len(s)], x, mode, order) > 0
    THEN Append(SortInsert(SubSeq(s, 1, Len(s) - 1), x, mode, order), s[Len(s)])
    ELSE Append(s, x)

RECURSIVE SortTodos(_, _, _)
SortTodos(list, mode, order) ==
    IF list = <<>> THEN <<>>
    ELSE SortInsert(SortTodos(SubSeq(list, 1, Len(list) - 1), mode, order),
                    list[Len(list)], mode, order)

\* useMemo orderedTodos
OrderedTodosOf(list, mode, order) == SortTodos(list, mode, order)
orderedTodos == OrderedTodosOf(todos, sortBy, todoOrder)

\* -------------------------------------------------------------- filtering
matchesSearch(todo, query) == includes(toLowerCase(todo.text), toLowerCase(query))

matchesFilter(todo, f) ==
    \/ f = "all"
    \/ f = "active" /\ ~todo.completed
    \/ f = "completed" /\ todo.completed

matchesDueDateFilter(todo, f, clock, tz) ==
    IF f = "all" THEN TRUE
    ELSE IF todo.dueDate = undefined THEN FALSE
    ELSE LET dueDate == ParseDate(todo.dueDate)
             today == getStartOfDay(clock, tz)
             dueDateStart == getStartOfDay(dueDate, tz)
         IN CASE f = "today" -> isToday(dueDate, clock, tz)
              [] f = "overdue" -> dueDateStart < today
              [] f = "upcoming" -> dueDateStart > today
              [] OTHER -> TRUE

matchesCategoryFilter(todo, f) == f = "all" \/ todo.category = f

matchesPriorityFilter(todo, f) ==
    CASE f = "all" -> TRUE
      [] f = "high-only" -> todo.priority = "high"
      [] f = "medium-plus" -> todo.priority = "high" \/ todo.priority = "medium"
      [] f = "high" -> todo.priority = "high"
      [] OTHER -> TRUE

Matches(todo) ==
    /\ matchesSearch(todo, searchQuery)
    /\ matchesFilter(todo, filter)
    /\ matchesDueDateFilter(todo, dueDateFilter, now, tzOffset)
    /\ matchesCategoryFilter(todo, categoryFilter)
    /\ matchesPriorityFilter(todo, priorityFilter)

\* useMemo filteredTodos
filteredTodos == SelectSeq(orderedTodos, Matches)

\* ------------------------------------------------- handlers: pure cores
\* value || undefined
OrUndefined(v) == IF v = "" THEN undefined ELSE v

\* Mutation: the empty due-date field is stored as it is, not as undefined.
NewTodo_Mutant(clock, trimmed, due, category, priority) ==
    [id |-> clock, text |-> trimmed, completed |-> FALSE,
     dueDate |-> due, category |-> OrUndefined(category),
     priority |-> priority]

\* addTodo: the Todo object built from the form fields and the clock.
NewTodo(clock, trimmed, due, category, priority) ==
    [id |-> clock, text |-> trimmed, completed |-> FALSE,
     dueDate |-> OrUndefined(due), category |-> OrUndefined(category),
     priority |-> priority]

\* Mutation: the flag is set instead of inverted.
toggleTodo_Mutant(list, id) ==
    [i \in 1..Len(list) |->
        IF list[i].id = id THEN [list[i] EXCEPT !.completed = TRUE] ELSE list[i]]

\* toggleTodo: todos.map(todo => todo.id === id ? {...todo, completed: !todo.completed} : todo)
toggleTodo(list, id) ==
    [i \in 1..Len(list) |->
        IF list[i].id = id
        THEN [list[i] EXCEPT !.completed = ~list[i].completed]
        ELSE list[i]]

\* deleteTodo: todos.filter(todo => todo.id !== id)
deleteTodo(list, id) == SelectSeq(list, LAMBDA t : t.id # id)

\* Mutation: the id test is missing, every todo gets the new text.
saveEditTodos_Mutant(list, id, trimmedValue) ==
    [i \in 1..Len(list) |-> [list[i] EXCEPT !.text = trimmedValue]]

\* saveEdit: todos.map(todo => todo.id === id ? {...todo, text: trimmedValue} : todo)
saveEditTodos(list, id, trimmedValue) ==
    [i \in 1..Len(list) |->
        IF list[i].id = id THEN [list[i] EXCEPT !.text = trimmedValue] ELSE list[i]]

\* ---------------------------------------------------------- environment
\* What the user can type into the text inputs.
InputTexts == {<<" ">>, <<" ", "a">>}
EditTexts == {<<" ">>, <<"B", " ">>}
SearchTexts == {<<>>, <<"b">>}
DueDateInputs == {"", "1970-01-03"}
CategoryInputs == {"", "work"}
PriorityInputs == {"low", "high"}

\* The edit <input> is rendered (and, being autoFocus, focused) when the
\* todo being edited is in the displayed list.
EditInputMounted ==
    editingId # null /\ \E i \in 1..Len(todos) : todos[i].id = editingId /\ Matches(todos[i])

\* No drag-and-drop operation is in progress (the browser delivers no
\* keyboard or pointer events to the page during one) and no edit input has
\* the focus.
Idle == ~EditInputMounted /\ draggedRef = null

\* Positions in todos of the todos that are displayed.
Displayed == {i \in 1..Len(todos) : Matches(todos[i])}

\* Bound on the toast queue and on the timers that are still pending.
CanToast == Len(timers) < MaxToasts /\ Len(toasts) < MaxToasts

\* ----------------------------------------------------------------- clock
Tick ==
    /\ now < MaxNow
    /\ now' = now + 1
    /\ lastOp' = "tick"
    /\ UNCHANGED <<todoVars, dragVars, storage, toastVars, tzOffset>>
    /\ UNCHANGED pageVars

\* ------------------------------------------------------- form field input
SetInputValue(v) ==
    /\ Idle
    /\ inputValue' = v
    /\ lastOp' = "input"
    /\ UNCHANGED <<todos, dueDateValue, categoryValue, priorityValue, searchQuery,
                   filter, dueDateFilter, categoryFilter, priorityFilter, sortBy,
                   todoOrder, editingId, editValue,
                   dragVars, storage, toastVars, envVars>>
    /\ UNCHANGED pageVars

SetDueDateValue(v) ==
    /\ Idle
    /\ dueDateValue' = v
    /\ lastOp' = "input"
    /\ UNCHANGED <<todos, inputValue, categoryValue, priorityValue, searchQuery,
                   filter, dueDateFilter, categoryFilter, priorityFilter, sortBy,
                   todoOrder, editingId, editValue,
                   dragVars, storage, toastVars, envVars>>
    /\ UNCHANGED pageVars

SetCategoryValue(v) ==
    /\ Idle
    /\ categoryValue' = v
    /\ lastOp' = "input"
    /\ UNCHANGED <<todos, inputValue, dueDateValue, priorityValue, searchQuery,
                   filter, dueDateFilter, categoryFilter, priorityFilter, sortBy,
                   todoOrder, editingId, editValue,
                   dragVars, storage, toastVars, envVars>>
    /\ UNCHANGED pageVars

SetPriorityValue(v) ==
    /\ Idle
    /\ priorityValue' = v
    /\ lastOp' = "input"
    /\ UNCHANGED <<todos, inputValue, dueDateValue, categoryValue, searchQuery,
                   filter, dueDateFilter, categoryFilter, priorityFilter, sortBy,
                   todoOrder, editingId, editValue,
                   dragVars, storage, toastVars, envVars>>
    /\ UNCHANGED pageVars

\* --------------------------------------------------------------- TodoStats
\* A date string "YYYY-MM-DD" of toISOString().split("T")[0] is written as
\* the number of its UTC day; lastCompletedDate is such a day or null.
\* getToday
getToday(clock) == clock \div MS_PER_DAY

\* yesterday.setDate(yesterday.getDate() - 1) goes one day back on the LOCAL
\* calendar, at the same local time of day, and toISOString() reads the UTC
\* day of that instant.  The local day gone back is 24 hours long, or 23 or
\* 25 when the zone's offset changed during it: the zone's offset now minus
\* its offset a local day ago is one of DstShifts.
DstShifts == {0 - MS_PER_HOUR, 0, MS_PER_HOUR}
yesterdayStrOf(clock, shift) == (clock - MS_PER_DAY + shift) \div MS_PER_DAY
YesterdayStrs(clock) == {yesterdayStrOf(clock, shift) : shift \in DstShifts}

\* The value under STREAK_STORAGE_KEY is written <<data>>, an absent item <<>>.
NoStreakData == [currentStreak |-> 0, lastCompletedDate |-> null]
loadStreakData(saved) == IF saved # <<>> THEN saved[1] ELSE NoStreakData
saveStreakData(data) == <<data>>

\* The effect on [todos, streakData] ("Update streak when todos are
\* completed"): the streakData it sets, or data itself when it sets nothing.
StreakUpdate(data, list, clock, yesterdayStr) ==
    LET hasCompletedToday == \E i \in 1..Len(list) : list[i].completed
        today == getToday(clock)
    IN IF hasCompletedToday /\ data.lastCompletedDate # today
       THEN [currentStreak |-> IF data.lastCompletedDate = yesterdayStr
                               THEN data.currentStreak + 1
                               ELSE 1,
             lastCompletedDate |-> today]
       ELSE data

\* The effect that runs once on mount ("Check if streak is still valid on
\* load").
StreakValidity(data, clock, yesterdayStr) ==
    IF data.lastCompletedDate = null \/ data.currentStreak = 0 THEN data
    ELSE IF data.lastCompletedDate # getToday(clock)
            /\ data.lastCompletedDate # yesterdayStr
         THEN NoStreakData
         ELSE data

\* TodoStats after a render with a new todos array: the effect runs, and
\* runs again on the streakData it has set, where it finds today recorded.
StatsAfterTodos ==
    \E yesterdayStr \in YesterdayStrs(now) :
        LET data == StreakUpdate(streakData, todos', now, yesterdayStr)
        IN /\ streakData' = data
           /\ streakSaved' = IF data # streakData THEN saveStreakData(data)
                             ELSE streakSaved

\* TodoStats mounted on the saved item: both effects run on the loaded data
\* and the state set last, by the validity effect if it sets one, is
\* rendered; then the streak effect runs on that state.
MountStreak(saved, list, clock, yesterdayStr) ==
    LET loaded == loadStreakData(saved)
        checked == StreakValidity(loaded, clock, yesterdayStr)
        first == IF checked # loaded THEN checked
                 ELSE StreakUpdate(loaded, list, clock, yesterdayStr)
    IN StreakUpdate(first, list, clock, yesterdayStr)

\* The first visit: no streak item is saved.
StatsOpened ==
    \E yesterdayStr \in YesterdayStrs(now) :
        LET data == MountStreak(<<>>, todos, now, yesterdayStr)
        IN /\ streakData = data
           /\ streakSaved = IF data # NoStreakData THEN saveStreakData(data) ELSE <<>>

\* Counter's useState(0); incs and decs record the clicks on "+" and "-"
\* since the last click on Reset.
CounterInit ==
    /\ count = 0
    /\ incs = 0
    /\ decs = 0

\* ---------------------------------------------------------------- addTodo
AddTodo ==
    /\ Idle
    /\ IF trim(inputValue) = <<>>
       THEN /\ lastOp' = "addTodoRejected"
            /\ UNCHANGED <<todoVars, dragVars, storage, toastVars, envVars, statsVars>>
       ELSE /\ Len(todos) < MaxTodos
            /\ CanToast
            /\ todos' = Append(todos, NewTodo(now, trim(inputValue), dueDateValue,
                                              categoryValue, priorityValue))
            /\ inputValue' = <<>>
            /\ dueDateValue' = ""
            /\ categoryValue' = ""
            /\ priorityValue' = "low"
            /\ toasts' = ToastsAfterAdd(toasts, "Todo item added successfully!", "success", now)
            /\ timers' = TimersAfterAdd(timers, now)
            /\ storage' = PersistTodos(storage, todos')
            /\ lastOp' = "addTodo"
            /\ StatsAfterTodos
            /\ UNCHANGED <<searchQuery, filter, dueDateFilter, categoryFilter,
                           priorityFilter, sortBy, todoOrder, editingId, editValue,
                           dragVars, envVars>>
    /\ UNCHANGED <<appVars, contactVars, counterVars>>

\* ------------------------------------------------------ toggle and delete
\* The checkbox of the displayed todo at position i of todos.
ToggleTodo(i) ==
    /\ Idle
    /\ i \in Displayed
    /\ todos' = toggleTodo(todos, todos[i].id)
    /\ storage' = PersistTodos(storage, todos')
    /\ lastOp' = "toggleTodo"
    /\ StatsAfterTodos
    /\ UNCHANGED <<inputValue, dueDateValue, categoryValue, priorityValue, searchQuery,
                   filter, dueDateFilter, categoryFilter, priorityFilter, sortBy,
                   todoOrder, editingId, editValue,
                   dragVars, toastVars, envVars>>
    /\ UNCHANGED <<appVars, contactVars, counterVars>>

\* The Delete button of the displayed todo at position i of todos.
DeleteTodo(i) ==
    /\ Idle
    /\ i \in Displayed
    /\ todos' = deleteTodo(todos, todos[i].id)
    /\ storage' = PersistTodos(storage, todos')
    /\ lastOp' = "deleteTodo"
    /\ StatsAfterTodos
    /\ UNCHANGED <<inputValue, dueDateValue, categoryValue, priorityValue, searchQuery,
                   filter, dueDateFilter, categoryFilter, priorityFilter, sortBy,
                   todoOrder, editingId, editValue,
                   dragVars, toastVars, envVars>>
    /\ UNCHANGED <<appVars, contactVars, counterVars>>

\* ---------------------------------------------------------------- editing
\* handleDoubleClick -> startEdit on the text of the displayed todo at i.
StartEdit(i) ==
    /\ Idle
    /\ i \in Displayed
    /\ editingId' = todos[i].id
    /\ editValue' = todos[i].text
    /\ lastOp' = "startEdit"
    /\ UNCHANGED <<todos, inputValue, dueDateValue, categoryValue, priorityValue,
                   searchQuery, filter, dueDateFilter, categoryFilter, priorityFilter,
                   sortBy, todoOrder,
                   dragVars, storage, toastVars, envVars>>
    /\ UNCHANGED pageVars

\* Typing in the edit input.
SetEditValue(v) ==
    /\ EditInputMounted
    /\ editValue' = v
    /\ lastOp' = "input"
    /\ UNCHANGED <<todos, inputValue, dueDateValue, categoryValue, priorityValue,
                   searchQuery, filter, dueDateFilter, categoryFilter, priorityFilter,
                   sortBy, todoOrder, editingId,
                   dragVars, storage, toastVars, envVars>>
    /\ UNCHANGED pageVars

\* handleEditKeyDown (Enter) and handleEditBlur -> saveEdit(id) of the todo
\* whose edit input is rendered.
SaveEdit ==
    /\ EditInputMounted
    /\ IF trim(editValue) = <<>>
       THEN /\ editingId' = null
            /\ editValue' = <<>>
            /\ lastOp' = "saveEditRejected"
            /\ UNCHANGED <<todos, inputValue, dueDateValue, categoryValue, priorityValue,
                           searchQuery, filter, dueDateFilter, categoryFilter,
                           priorityFilter, sortBy, todoOrder,
                           dragVars, storage, toastVars, envVars, statsVars>>
       ELSE /\ CanToast
            /\ todos' = saveEditTodos(todos, editingId, trim(editValue))
            /\ editingId' = null
            /\ editValue' = <<>>
            /\ toasts' = ToastsAfterAdd(toasts, "Todo updated successfully!", "success", now)
            /\ timers' = TimersAfterAdd(timers, now)
            /\ storage' = PersistTodos(storage, todos')
            /\ lastOp' = "saveEdit"
            /\ StatsAfterTodos
            /\ UNCHANGED <<inputValue, dueDateValue, categoryValue, priorityValue,
                           searchQuery, filter, dueDateFilter, categoryFilter,
                           priorityFilter, sortBy, todoOrder,
                           dragVars, envVars>>
    /\ UNCHANGED <<appVars, contactVars, counterVars>>

\* handleEditKeyDown (Escape) -> cancelEdit
CancelEdit ==
    /\ EditInputMounted
    /\ editingId' = null
    /\ editValue' = <<>>
    /\ lastOp' = "cancelEdit"
    /\ UNCHANGED <<todos, inputValue, dueDateValue, categoryValue, priorityValue,
                   searchQuery, filter, dueDateFilter, categoryFilter, priorityFilter,
                   sortBy, todoOrder,
                   dragVars, storage, toastVars, envVars>>
    /\ UNCHANGED pageVars

\* ----------------------------------------------------------------- toasts
\* The close button of the toast at position k of the queue.
CloseToast(k) ==
    /\ Idle
    /\ k \in 1..Len(toasts)
    /\ toasts' = removeToast(toasts, toasts[k].id)
    /\ lastOp' = "removeToast"
    /\ UNCHANGED <<todoVars, dragVars, storage, timers, envVars>>
    /\ UNCHANGED pageVars

\* The setTimeout callback of addToast.  All timers have the same delay, so
\* they fire in the order in which they were registered.
TimerFire ==
    /\ timers # <<>>
    /\ toasts' = removeToast(toasts, Head(timers))
    /\ timers' = Tail(timers)
    /\ lastOp' = IF \E k \in 1..Len(toasts) : toasts[k].id = Head(timers)
                 THEN "timer" ELSE "timerNoop"
    /\ UNCHANGED <<todoVars, dragVars, storage, envVars>>
    /\ UNCHANGED pageVars

\* ------------------------------------------------- search, filters, sort
SetSearchQuery(v) ==
    /\ Idle
    /\ searchQuery' = v
    /\ lastOp' = "input"
    /\ UNCHANGED <<todos, inputValue, dueDateValue, categoryValue, priorityValue,
                   filter, dueDateFilter, categoryFilter, priorityFilter, sortBy,
                   todoOrder, editingId, editValue,
                   dragVars, storage, toastVars, envVars>>
    /\ UNCHANGED pageVars

SetFilter(f) ==
    /\ Idle
    /\ filter' = f
    /\ storage' = setItem(storage, FILTER_STORAGE_KEY, f)
    /\ lastOp' = "filter"
    /\ UNCHANGED <<todos, inputValue, dueDateValue, categoryValue, priorityValue,
                   searchQuery, dueDateFilter, categoryFilter, priorityFilter, sortBy,
                   todoOrder, editingId, editValue,
                   dragVars, toastVars, envVars>>
    /\ UNCHANGED pageVars

SetDueDateFilter(f) ==
    /\ Idle
    /\ dueDateFilter' = f
    /\ storage' = setItem(storage, DUE_DATE_FILTER_STORAGE_KEY, f)
    /\ lastOp' = "filter"
    /\ UNCHANGED <<todos, inputValue, dueDateValue, categoryValue, priorityValue,
                   searchQuery, filter, categoryFilter, priorityFilter, sortBy,
                   todoOrder, editingId, editValue,
                   dragVars, toastVars, envVars>>
    /\ UNCHANGED pageVars

SetCategoryFilter(f) ==
    /\ Idle
    /\ categoryFilter' = f
    /\ storage' = setItem(storage, CATEGORY_FILTER_STORAGE_KEY, f)
    /\ lastOp' = "filter"
    /\ UNCHANGED <<todos, inputValue, dueDateValue, categoryValue, priorityValue,
                   searchQuery, filter, dueDateFilter, priorityFilter, sortBy,
                   todoOrder, editingId, editValue,
                   dragVars, toastVars, envVars>>
    /\ UNCHANGED pageVars

SetPriorityFilter(f) ==
    /\ Idle
    /\ priorityFilter' = f
    /\ storage' = setItem(storage, PRIORITY_FILTER_STORAGE_KEY, f)
    /\ lastOp' = "filter"
    /\ UNCHANGED <<todos, inputValue, dueDateValue, categoryValue, priorityValue,
                   searchQuery, filter, dueDateFilter, categoryFilter, sortBy,
                   todoOrder, editingId, editValue,
                   dragVars, toastVars, envVars>>
    /\ UNCHANGED pageVars

SetSortBy(m) ==
    /\ Idle
    /\ sortBy' = m
    /\ storage' = setItem(storage, SORT_STORAGE_KEY, m)
    /\ lastOp' = "filter"
    /\ UNCHANGED <<todos, inputValue, dueDateValue, categoryValue, priorityValue,
                   searchQuery, filter, dueDateFilter, categoryFilter, priorityFilter,
                   todoOrder, editingId, editValue,
                   dragVars, toastVars, envVars>>
    /\ UNCHANGED pageVars

\* ------------------------------------------------------------- reordering
Min(a, b) == IF a < b THEN a ELSE b
Max(a, b) == IF a > b THEN a ELSE b

\* Array.prototype.indexOf: zero-based position of the first occurrence, -1
\* when absent.
indexOf(s, x) ==
    IF \E i \in 1..Len(s) : s[i] = x
    THEN (CHOOSE i \in 1..Len(s) : s[i] = x /\ \A j \in 1..(i - 1) : s[j] # x) - 1
    ELSE -1

\* Array.prototype.splice(start, 0, x): start is clamped to the array; a
\* negative start counts from the end.
spliceInsert(s, start, x) ==
    LET st == IF start < 0 THEN Max(Len(s) + start, 0) ELSE Min(start, Len(s))
    IN SubSeq(s, 1, st) \o <<x>> \o SubSeq(s, st + 1, Len(s))

\* Array.prototype.splice(start, 1)
spliceRemove(s, start) ==
    LET st == IF start < 0 THEN Max(Len(s) + start, 0) ELSE Min(start, Len(s))
    IN SubSeq(s, 1, st) \o SubSeq(s, st + 2, Len(s))

idsOf(list) == [i \in 1..Len(list) |-> list[i].id]

\* currentOrder of handleDrop and moveTodo: the stored order, or the
\* displayed order of all todos when nothing has been stored yet.
currentOrderOf(order, ordered) == IF Len(order) > 0 THEN order ELSE idsOf(ordered)

\* handleDrop: the order that is stored for a drop of dragged on target.
dropOrder(order, ordered, dragged, target, position) ==
    LET c0 == currentOrderOf(order, ordered)
        c1 == IF indexOf(c0, dragged) = -1 THEN <<dragged>> \o c0 ELSE c0
        c2 == IF indexOf(c1, target) = -1 THEN Append(c1, target) ELSE c1
        filteredOrder == SelectSeq(c2, LAMBDA id : id # dragged)
        targetIndex == indexOf(filteredOrder, target)
        insertIndex == IF position = "before" THEN targetIndex ELSE targetIndex + 1
    IN spliceInsert(filteredOrder, insertIndex, dragged)

\* moveTodo: forEach over the displayed ids, pushing the ones that are not
\* in the order yet.
RECURSIVE pushMissing(_, _)
pushMissing(order, ids) ==
    IF ids = <<>> THEN order
    ELSE pushMissing(IF indexOf(order, Head(ids)) = -1 THEN Append(order, Head(ids))
                     ELSE order,
                     Tail(ids))

\* moveTodo: fromIndex and toIndex are zero-based positions in the displayed
\* list.
moveOrder(order, ordered, shown, fromIndex, toIndex) ==
    LET currentFilteredIds == idsOf(shown)
        c0 == pushMissing(currentOrderOf(order, ordered), currentFilteredIds)
        movedId == currentFilteredIds[fromIndex + 1]
        targetId == currentFilteredIds[toIndex + 1]
        c1 == spliceRemove(c0, indexOf(c0, movedId))
        newTargetIndex == indexOf(c1, targetId)
        insertAt == IF fromIndex < toIndex THEN newTargetIndex + 1 ELSE newTargetIndex
    IN spliceInsert(c1, insertAt, movedId)

NaN == -2

\* handleDragStart on the displayed todo at position i of todos.
HandleDragStart(i) ==
    /\ Idle
    /\ i \in Displayed
    /\ draggedId' = todos[i].id
    /\ draggedRef' = todos[i].id
    /\ dataTransfer' = todos[i].id
    /\ lastOp' = "dragStart"
    /\ UNCHANGED <<todoVars, dropTargetId, dropPosition, storage, toastVars, envVars>>
    /\ UNCHANGED pageVars

\* handleDragOver on the displayed todo at position i, pointer in the upper
\* ("before") or lower ("after") half of the item.
HandleDragOver(i, position) ==
    /\ dataTransfer # NaN
    /\ i \in Displayed
    /\ draggedRef # null /\ draggedRef # todos[i].id
    /\ dropTargetId' = todos[i].id
    /\ dropPosition' = position
    /\ lastOp' = "dragOver"
    /\ UNCHANGED <<todoVars, draggedId, draggedRef, dataTransfer, storage, toastVars, envVars>>
    /\ UNCHANGED pageVars

\* handleDragEnd
HandleDragEnd ==
    /\ draggedRef # null
    /\ draggedId' = null
    /\ dropTargetId' = null
    /\ dropPosition' = nullPosition
    /\ draggedRef' = null
    /\ dataTransfer' = NaN
    /\ lastOp' = "dragEnd"
    /\ UNCHANGED <<todoVars, storage, toastVars, envVars>>
    /\ UNCHANGED pageVars

\* handleDrop on the displayed todo at position i of todos.  The drag ends
\* with the drop: the dragend event of the source runs handleDragEnd again
\* on state that the drop has already reset.
HandleDrop(i) ==
    /\ draggedRef # null
    /\ i \in Displayed
    /\ IF dataTransfer = NaN \/ dataTransfer = todos[i].id
       THEN /\ lastOp' = "dropRejected"
            /\ UNCHANGED <<todoVars, storage, toastVars>>
       ELSE /\ CanToast
            /\ todoOrder' = dropOrder(todoOrder, orderedTodos, dataTransfer,
                                      todos[i].id, dropPosition)
            /\ storage' = PersistOrder(storage, todoOrder')
            /\ toasts' = ToastsAfterAdd(toasts, "Todo reordered", "info", now)
            /\ timers' = TimersAfterAdd(timers, now)
            /\ lastOp' = "drop"
            /\ UNCHANGED <<todos, inputValue, dueDateValue, categoryValue, priorityValue,
                           searchQuery, filter, dueDateFilter, categoryFilter,
                           priorityFilter, sortBy, editingId, editValue>>
    /\ draggedId' = null
    /\ dropTargetId' = null
    /\ dropPosition' = nullPosition
    /\ draggedRef' = null
    /\ dataTransfer' = NaN
    /\ UNCHANGED envVars
    /\ UNCHANGED pageVars

\* handleTodoKeyDown with Alt held on the drag handle of the displayed item
\* k (one-based), key ArrowUp or ArrowDown.
HandleTodoKeyDown(k, key) ==
    /\ Idle
    /\ k \in 1..Len(filteredTodos)
    /\ LET index == k - 1
       IN IF key = "ArrowUp" /\ index > 0
          THEN /\ CanToast
               /\ todoOrder' = moveOrder(todoOrder, orderedTodos, filteredTodos, index, index - 1)
               /\ lastOp' = "moveUp"
               /\ toasts' = ToastsAfterAdd(toasts, "Todo reordered", "info", now)
               /\ timers' = TimersAfterAdd(timers, now)
               /\ storage' = PersistOrder(storage, todoOrder')
          ELSE IF key = "ArrowDown" /\ index < Len(filteredTodos) - 1
          THEN /\ CanToast
               /\ todoOrder' = moveOrder(todoOrder, orderedTodos, filteredTodos, index, index + 1)
               /\ lastOp' = "moveDown"
               /\ toasts' = ToastsAfterAdd(toasts, "Todo reordered", "info", now)
               /\ timers' = TimersAfterAdd(timers, now)
               /\ storage' = PersistOrder(storage, todoOrder')
          ELSE /\ lastOp' = "moveRejected"
               /\ UNCHANGED <<todoOrder, toasts, timers, storage>>
    /\ UNCHANGED <<todos, inputValue, dueDateValue, categoryValue, priorityValue,
                   searchQuery, filter, dueDateFilter, categoryFilter, priorityFilter,
                   sortBy, editingId, editValue, dragVars, envVars>>
    /\ UNCHANGED pageVars

\* ------------------------------------------------------------- page state
\* ContactForm's errors object: a field without error reads as undefined.
NoErrors == [name |-> undefined, email |-> undefined, message |-> undefined]

\* ContactForm's useState initial values.
ContactInit ==
    /\ contactName = <<>>
    /\ contactEmail = <<>>
    /\ contactMessage = <<>>
    /\ errors = NoErrors
    /\ touched = {}
    /\ submitted = FALSE

\* The state of App, the theme context and ContactForm after construction.
PageInit ==
    /\ theme = "light"
    /\ isHelpModalOpen = FALSE
    /\ isMac = FALSE
    /\ actionsRun = <<>>
    /\ ContactInit
    /\ StatsOpened
    /\ CounterInit

\* ------------------------------------------------------------------- Init
\* The state initialisers when storage holds no filter, sort or order: the
\* form is empty, every filter is "all", the sort mode is "manual".
EmptyTodoState ==
    /\ inputValue = <<>>
    /\ dueDateValue = ""
    /\ categoryValue = ""
    /\ priorityValue = "low"
    /\ searchQuery = <<>>
    /\ filter = "all"
    /\ dueDateFilter = "all"
    /\ categoryFilter = "all"
    /\ priorityFilter = "all"
    /\ sortBy = "manual"
    /\ todoOrder = <<>>
    /\ editingId = null
    /\ editValue = <<>>
    /\ draggedId = null
    /\ dropTargetId = null
    /\ dropPosition = nullPosition
    /\ draggedRef = null
    /\ dataTransfer = NaN

\* The persistence effects all run once after the first render.
MountEffects(list, order, f, df, cf, pf, sb) ==
    (STORAGE_KEY :> StringifyTodos(list))
    @@ (ORDER_STORAGE_KEY :> StringifyOrder(order))
    @@ (FILTER_STORAGE_KEY :> f)
    @@ (DUE_DATE_FILTER_STORAGE_KEY :> df)
    @@ (CATEGORY_FILTER_STORAGE_KEY :> cf)
    @@ (PRIORITY_FILTER_STORAGE_KEY :> pf)
    @@ (SORT_STORAGE_KEY :> sb)

\* The component mounted on empty storage.
Init ==
    /\ todos = <<>>
    /\ EmptyTodoState
    /\ storage = MountEffects(todos, todoOrder, filter, dueDateFilter,
                              categoryFilter, priorityFilter, sortBy)
    /\ toasts = <<>>
    /\ timers = <<>>
    /\ now = 1
    /\ tzOffset = 0
    /\ lastOp = "init"
    /\ PageInit

\* ------------------------------------------------------------------- Next
\* Creating, completing, editing and deleting todos.
Next ==
    \/ Tick
    \/ \E v \in InputTexts : SetInputValue(v)
    \/ AddTodo
    \/ \E i \in 1..MaxTodos : ToggleTodo(i)
    \/ \E i \in 1..MaxTodos : DeleteTodo(i)
    \/ \E i \in 1..MaxTodos : StartEdit(i)
    \/ \E v \in EditTexts : SetEditValue(v)
    \/ SaveEdit
    \/ CancelEdit
    \/ TimerFire

Spec == Init /\ [][Next]_vars

\* The add form: every field of the form, addTodo, and deleteTodo to make
\* room again.
NextAdd ==
    \/ Tick
    \/ \E v \in InputTexts : SetInputValue(v)
    \/ \E v \in DueDateInputs : SetDueDateValue(v)
    \/ \E v \in CategoryInputs : SetCategoryValue(v)
    \/ \E v \in PriorityInputs : SetPriorityValue(v)
    \/ AddTodo
    \/ \E i \in 1..MaxTodos : DeleteTodo(i)
    \/ TimerFire

SpecAdd == Init /\ [][NextAdd]_vars

\* Every handler that changes todos or todoOrder.
NextPersist ==
    \/ Tick
    \/ SetInputValue(<<" ", "a">>)
    \/ AddTodo
    \/ \E i \in 1..MaxTodos : ToggleTodo(i)
    \/ \E i \in 1..MaxTodos : DeleteTodo(i)
    \/ \E i \in 1..MaxTodos : StartEdit(i)
    \/ SetEditValue(<<"B", " ">>)
    \/ SaveEdit
    \/ \E i \in 1..MaxTodos : HandleDragStart(i)
    \/ \E i \in 1..MaxTodos : HandleDragOver(i, "before")
    \/ \E i \in 1..MaxTodos : HandleDrop(i)
    \/ HandleDragEnd
    \/ \E k \in 1..MaxTodos, key \in {"ArrowUp", "ArrowDown"} : HandleTodoKeyDown(k, key)
    \/ TimerFire

SpecPersist == Init /\ [][NextPersist]_vars

\* The toast provider alone: any component may call addToast.
ToastMessages ==
    {<<"Todo item added successfully!", "success">>,
     <<"Todo updated successfully!", "success">>,
     <<"Todo reordered", "info">>,
     <<"Switched to dark mode", "info">>}

AddToast(message, type) ==
    /\ CanToast
    /\ toasts' = ToastsAfterAdd(toasts, message, type, now)
    /\ timers' = TimersAfterAdd(timers, now)
    /\ lastOp' = "addToast"
    /\ UNCHANGED <<todoVars, dragVars, storage, envVars>>
    /\ UNCHANGED pageVars

NextToast ==
    \/ Tick
    \/ \E m \in ToastMessages : AddToast(m[1], m[2])
    \/ \E k \in 1..MaxToasts : CloseToast(k)
    \/ TimerFire

SpecToast == Init /\ [][NextToast]_vars

\* The event loop runs a timer callback once its delay has elapsed.
LiveSpecToast == SpecToast /\ WF_vars(TimerFire)

\* The displayed list as a function of the todo list, the search box, the
\* filters, the sort mode, the clock and the time zone of the browser.
TodoPool ==
    { [id |-> 1, text |-> <<"a">>, completed |-> FALSE, dueDate |-> undefined,
       category |-> undefined, priority |-> "low"],
      [id |-> 2, text |-> <<"B">>, completed |-> TRUE, dueDate |-> "1970-01-03",
       category |-> "work", priority |-> "high"],
      [id |-> 3, text |-> <<"a", "B">>, completed |-> FALSE, dueDate |-> "1970-01-02",
       category |-> "health", priority |-> "medium"],
      [id |-> 4, text |-> <<"b">>, completed |-> TRUE, dueDate |-> "1970-01-04",
       category |-> undefined, priority |-> "low"] }

\* Noon UTC of 1970-01-03, seen from zones west of, at and east of UTC.
Instants == {2 * MS_PER_DAY + 12 * MS_PER_HOUR}
TimeZones == {-5 * MS_PER_HOUR, 0, 2 * MS_PER_HOUR}

InitFilter ==
    /\ \E k \in 0..MaxTodos : todos \in [1..k -> TodoPool]
    /\ EmptyTodoState
    /\ storage = MountEffects(todos, todoOrder, filter, dueDateFilter,
                              categoryFilter, priorityFilter, sortBy)
    /\ toasts = <<>>
    /\ timers = <<>>
    /\ now \in Instants
    /\ tzOffset \in TimeZones
    /\ lastOp = "init"
    /\ PageInit

NextFilter ==
    \/ \E v \in SearchTexts : SetSearchQuery(v)
    \/ \E f \in FilterType : SetFilter(f)
    \/ \E f \in DueDateFilterType : SetDueDateFilter(f)
    \/ \E f \in {"all", "work"} : SetCategoryFilter(f)
    \/ \E f \in PriorityFilterType \ {"high"} : SetPriorityFilter(f)
    \/ \E m \in SortType : SetSortBy(m)

SpecFilter == InitFilter /\ [][NextFilter]_vars

\* ----------------------------------------------------------------- reload
\* localStorage of a browser profile in which the page was never opened.
EmptyStorage == [k \in {} |-> ""]

\* localStorage.getItem returns null for a key that was never set.
hasItem(store, key) == key \in DOMAIN store
getItem(store, key) == store[key]

\* JSON.parse of one stored todo followed by the migration of the todos
\* initialiser: a property that is absent from the stored object reads as
\* undefined, an absent priority becomes "low".
ParseTodo(o) ==
    [id |-> o.id, text |-> o.text, completed |-> o.completed,
     dueDate |-> IF "dueDate" \in DOMAIN o THEN o.dueDate ELSE undefined,
     category |-> IF "category" \in DOMAIN o THEN o.category ELSE undefined,
     priority |-> IF "priority" \in DOMAIN o THEN o.priority ELSE "low"]

\* Mutation: the stored completed flag is not read back.
InitialTodos_Mutant(store) ==
    IF ~hasItem(store, STORAGE_KEY) THEN <<>>
    ELSE [i \in 1..Len(getItem(store, STORAGE_KEY)) |->
             [ParseTodo(getItem(store, STORAGE_KEY)[i]) EXCEPT !.completed = FALSE]]

\* useState initialiser of todos
InitialTodos(store) ==
    IF ~hasItem(store, STORAGE_KEY) THEN <<>>
    ELSE [i \in 1..Len(getItem(store, STORAGE_KEY)) |->
             ParseTodo(getItem(store, STORAGE_KEY)[i])]

\* useState initialisers of filter, dueDateFilter, categoryFilter,
\* priorityFilter and sortBy: saved || fallback
SavedOr(store, key, fallback) ==
    IF hasItem(store, key) /\ getItem(store, key) # "" THEN getItem(store, key)
    ELSE fallback

\* useState initialiser of todoOrder: saved ? JSON.parse(saved) : []
InitialTodoOrder(store) ==
    IF hasItem(store, ORDER_STORAGE_KEY) THEN getItem(store, ORDER_STORAGE_KEY) ELSE <<>>

\* The component state right after the initialisers have run on store; the
\* persistence effects then write every key.
Mounted(store) ==
    /\ todos' = InitialTodos(store)
    /\ inputValue' = <<>>
    /\ dueDateValue' = ""
    /\ searchQuery' = <<>>
    /\ filter' = SavedOr(store, FILTER_STORAGE_KEY, "all")
    /\ dueDateFilter' = SavedOr(store, DUE_DATE_FILTER_STORAGE_KEY, "all")
    /\ categoryValue' = ""
    /\ categoryFilter' = SavedOr(store, CATEGORY_FILTER_STORAGE_KEY, "all")
    /\ priorityFilter' = SavedOr(store, PRIORITY_FILTER_STORAGE_KEY, "all")
    /\ sortBy' = SavedOr(store, SORT_STORAGE_KEY, "manual")
    /\ priorityValue' = "low"
    /\ todoOrder' = InitialTodoOrder(store)
    /\ draggedId' = null
    /\ dropTargetId' = null
    /\ dropPosition' = nullPosition
    /\ draggedRef' = null
    /\ dataTransfer' = NaN
    /\ editingId' = null
    /\ editValue' = <<>>
    /\ storage' = MountEffects(todos', todoOrder', filter', dueDateFilter',
                               categoryFilter', priorityFilter', sortBy')

\* A page reload: the component tree is built again from localStorage; the
\* toast queue and the pending timers of the old page are gone.
Reload ==
    /\ Mounted(storage)
    /\ toasts' = <<>>
    /\ timers' = <<>>
    /\ lastOp' = "reload"
    /\ isHelpModalOpen' = FALSE
    /\ actionsRun' = <<>>
    /\ contactName' = <<>> /\ contactEmail' = <<>> /\ contactMessage' = <<>>
    /\ errors' = NoErrors /\ touched' = {} /\ submitted' = FALSE
    /\ \E yesterdayStr \in YesterdayStrs(now) :
          LET data == MountStreak(streakSaved, todos', now, yesterdayStr)
          IN /\ streakData' = data
             /\ streakSaved' = IF data # loadStreakData(streakSaved)
                               THEN saveStreakData(data)
                               ELSE streakSaved
    /\ count' = 0 /\ incs' = 0 /\ decs' = 0
    /\ UNCHANGED <<envVars, theme, isMac>>

\* What localStorage can hold when the page is opened: nothing (the first
\* visit), or what the effects of an earlier session wrote.
SavedTodos ==
    { [id |-> 1, text |-> <<"a">>, completed |-> FALSE, dueDate |-> undefined,
       category |-> undefined, priority |-> "low"],
      [id |-> 2, text |-> <<"B">>, completed |-> TRUE, dueDate |-> "1970-01-03",
       category |-> "work", priority |-> "high"] }

SavedStorages ==
    {EmptyStorage} \cup
    { MountEffects(list, <<>>, "all", "all", "all", "all", "manual") :
        list \in UNION {[1..k -> SavedTodos] : k \in 1..MaxTodos} }

\* The page is opened at clock reading clock: the initialisers run on what
\* localStorage holds.
OpenedOn(store, clock) ==
    /\ todos = InitialTodos(store)
    /\ inputValue = <<>>
    /\ dueDateValue = ""
    /\ searchQuery = <<>>
    /\ filter = SavedOr(store, FILTER_STORAGE_KEY, "all")
    /\ dueDateFilter = SavedOr(store, DUE_DATE_FILTER_STORAGE_KEY, "all")
    /\ categoryValue = ""
    /\ categoryFilter = SavedOr(store, CATEGORY_FILTER_STORAGE_KEY, "all")
    /\ priorityFilter = SavedOr(store, PRIORITY_FILTER_STORAGE_KEY, "all")
    /\ sortBy = SavedOr(store, SORT_STORAGE_KEY, "manual")
    /\ priorityValue = "low"
    /\ todoOrder = InitialTodoOrder(store)
    /\ draggedId = null
    /\ dropTargetId = null
    /\ dropPosition = nullPosition
    /\ draggedRef = null
    /\ dataTransfer = NaN
    /\ editingId = null
    /\ editValue = <<>>
    /\ storage = MountEffects(todos, todoOrder, filter, dueDateFilter,
                              categoryFilter, priorityFilter, sortBy)
    /\ toasts = <<>>
    /\ timers = <<>>
    /\ now = clock
    /\ tzOffset = 0
    /\ lastOp = IF store = EmptyStorage THEN "init" ELSE "initSaved"
    /\ PageInit

InitReload == \E store \in SavedStorages : OpenedOn(store, 3)

\* Completing and reordering todos, the filters and the sort mode, and a
\* reload at any moment.
NextReload ==
    \/ \E i \in 1..MaxTodos : ToggleTodo(i)
    \/ \E k \in 1..MaxTodos, key \in {"ArrowUp", "ArrowDown"} : HandleTodoKeyDown(k, key)
    \/ \E f \in {"all", "completed"} : SetFilter(f)
    \/ \E f \in {"all", "upcoming"} : SetDueDateFilter(f)
    \/ \E f \in {"all", "work"} : SetCategoryFilter(f)
    \/ \E f \in {"all", "medium-plus"} : SetPriorityFilter(f)
    \/ \E m \in {"manual", "created"} : SetSortBy(m)
    \/ TimerFire
    \/ Reload

SpecReload == InitReload /\ [][NextReload]_vars

\* ------------------------------------------------------------------ theme
\* The theme context: a two-valued preference and the function that flips it.
ThemeType == {"light", "dark"}
toggleTheme(t) == IF t = "light" THEN "dark" ELSE "light"

\* Mutation: the toast names the theme of the render the handler closed over.
newTheme_Mutant(t) == t

\* handleToggleTheme: const newTheme = theme === "light" ? "dark" : "light"
newTheme(t) == IF t = "light" THEN "dark" ELSE "light"

\* The template literal `Switched to ${newTheme} mode`
SwitchedToMessage(t) ==
    CASE t = "light" -> "Switched to light mode"
      [] t = "dark" -> "Switched to dark mode"

\* The state changes of handleToggleTheme (Header and App have the same body).
DoToggleTheme ==
    /\ CanToast
    /\ theme' = toggleTheme(theme)
    /\ toasts' = ToastsAfterAdd(toasts, SwitchedToMessage(newTheme(theme)), "info", now)
    /\ timers' = TimersAfterAdd(timers, now)

\* The theme button of the header.
ClickThemeToggle ==
    /\ Idle
    /\ DoToggleTheme
    /\ lastOp' = "themeButton"
    /\ UNCHANGED <<todoVars, dragVars, storage, envVars, isHelpModalOpen, isMac,
                   actionsRun, contactVars>>
    /\ UNCHANGED <<statsVars, counterVars>>

\* ------------------------------------------------------ keyboard shortcuts
\* The shortcuts array of App, in registration order.
shortcuts ==
    << [key |-> "n", ctrlOrCmd |-> TRUE, action |-> "focusTodoInput"],
       [key |-> "d", ctrlOrCmd |-> TRUE, action |-> "handleToggleTheme"],
       [key |-> "Escape", ctrlOrCmd |-> FALSE, action |-> "clearSearchAndCloseModals"],
       [key |-> "?", ctrlOrCmd |-> FALSE, action |-> "openHelpModal"] >>

\* String.prototype.toLowerCase on the key names and tag names of the model.
KeyLower(k) ==
    CASE k = "N" -> "n"
      [] k = "D" -> "d"
      [] k = "Escape" -> "escape"
      [] k = "BODY" -> "body"
      [] k = "BUTTON" -> "button"
      [] k = "INPUT" -> "input"
      [] k = "TEXTAREA" -> "textarea"
      [] k = "SELECT" -> "select"
      [] k = "DIV" -> "div"
      [] OTHER -> k

\* The keydown events of the model: a key, the two modifiers the hook reads,
\* and the element the event is targeted at.
EventKeys == {"n", "D", "Escape", "?"}
EventTargets ==
    { [tagName |-> "BODY", isContentEditable |-> FALSE],
      [tagName |-> "BUTTON", isContentEditable |-> FALSE],
      [tagName |-> "INPUT", isContentEditable |-> FALSE],
      [tagName |-> "TEXTAREA", isContentEditable |-> FALSE],
      [tagName |-> "SELECT", isContentEditable |-> FALSE],
      [tagName |-> "DIV", isContentEditable |-> TRUE] }
KeyboardEvents ==
    [key : EventKeys, ctrlKey : BOOLEAN, metaKey : BOOLEAN, target : EventTargets]

\* Mutation: select elements and content-editable elements are not
\* recognised as places where the user types.
isInputElement_Mutant(element) ==
    \/ KeyLower(element.tagName) = "input"
    \/ KeyLower(element.tagName) = "textarea"

\* isInputElement
isInputElement(element) ==
    \/ KeyLower(element.tagName) = "input"
    \/ KeyLower(element.tagName) = "textarea"
    \/ KeyLower(element.tagName) = "select"
    \/ element.isContentEditable

\* const ctrlOrCmd = isMac ? event.metaKey : event.ctrlKey
ctrlOrCmdOf(event, mac) == IF mac THEN event.metaKey ELSE event.ctrlKey

keyMatch(shortcut, event) == KeyLower(event.key) = KeyLower(shortcut.key)

ctrlOrCmdMatch(shortcut, event, mac) ==
    IF shortcut.ctrlOrCmd THEN ctrlOrCmdOf(event, mac)
    ELSE ~ctrlOrCmdOf(event, mac) /\ ~event.metaKey /\ ~event.ctrlKey

\* useKeyboardShortcuts.handleKeyDown: the actions the loop over the
\* shortcuts runs for one event.  A shortcut without ctrlOrCmd is passed over
\* when the target is a place where the user types; the loop returns after
\* the first action it runs.
RECURSIVE actionsOfKeyDown(_, _, _)
actionsOfKeyDown(list, event, mac) ==
    IF list = <<>> THEN <<>>
    ELSE IF keyMatch(Head(list), event) /\ ctrlOrCmdMatch(Head(list), event, mac)
         THEN IF ~Head(list).ctrlOrCmd /\ isInputElement(event.target)
              THEN actionsOfKeyDown(Tail(list), event, mac)
              ELSE <<Head(list).action>>
         ELSE actionsOfKeyDown(Tail(list), event, mac)

\* Mutation: the search box is left as it is.
clearSearchAndCloseModals_Mutant(open, query) ==
    [isHelpModalOpen |-> FALSE, searchQuery |-> query]

\* clearSearchAndCloseModals: an open help modal is closed and nothing else
\* happens; otherwise a non-empty search box is emptied through its onChange.
clearSearchAndCloseModals(open, query) ==
    IF open THEN [isHelpModalOpen |-> FALSE, searchQuery |-> query]
    ELSE [isHelpModalOpen |-> open, searchQuery |-> <<>>]

\* One keydown event on the document: the listener of useKeyboardShortcuts
\* and the handleEscape listener of KeyboardShortcutsModal both receive it.
KeyDown(event) ==
    /\ Idle
    /\ LET ran == actionsOfKeyDown(shortcuts, event, isMac)
           Ran(a) == \E i \in 1..Len(ran) : ran[i] = a
           cleared == IF Ran("clearSearchAndCloseModals")
                      THEN clearSearchAndCloseModals(isHelpModalOpen, searchQuery)
                      ELSE [isHelpModalOpen |-> isHelpModalOpen, searchQuery |-> searchQuery]
           handleEscape == event.key = "Escape" /\ isHelpModalOpen
       IN /\ actionsRun' = ran
          /\ searchQuery' = cleared.searchQuery
          /\ isHelpModalOpen' = IF Ran("openHelpModal") THEN TRUE
                                ELSE IF handleEscape THEN FALSE
                                ELSE cleared.isHelpModalOpen
          /\ IF Ran("handleToggleTheme") THEN DoToggleTheme
             ELSE UNCHANGED <<theme, toasts, timers>>
    /\ lastOp' = IF searchQuery # <<>> /\ searchQuery' = <<>> THEN "searchCleared"
                 ELSE "keydown"
    /\ UNCHANGED <<todos, inputValue, dueDateValue, categoryValue, priorityValue,
                   filter, dueDateFilter, categoryFilter, priorityFilter, sortBy,
                   todoOrder, editingId, editValue,
                   dragVars, storage, envVars, isMac, contactVars>>
    /\ UNCHANGED <<statsVars, counterVars>>

\* The close button and the backdrop of the help modal.
CloseHelpModal ==
    /\ isHelpModalOpen
    /\ isHelpModalOpen' = FALSE
    /\ lastOp' = "closeHelpModal"
    /\ UNCHANGED <<todoVars, dragVars, storage, toastVars, envVars, theme, isMac,
                   actionsRun, contactVars>>
    /\ UNCHANGED <<statsVars, counterVars>>

\* The page opened with either theme preference, on either kind of platform.
InitApp ==
    /\ todos = <<>>
    /\ EmptyTodoState
    /\ storage = MountEffects(todos, todoOrder, filter, dueDateFilter,
                              categoryFilter, priorityFilter, sortBy)
    /\ toasts = <<>>
    /\ timers = <<>>
    /\ now = 1
    /\ tzOffset = 0
    /\ lastOp = "init"
    /\ theme \in ThemeType
    /\ isHelpModalOpen = FALSE
    /\ isMac \in BOOLEAN
    /\ actionsRun = <<>>
    /\ ContactInit
    /\ StatsOpened
    /\ CounterInit

\* The keydown events of the D key, on any element, with any modifiers.
KeysD == {event \in KeyboardEvents : event.key \in {"d", "D"}}

\* The two ways to toggle the theme.
NextTheme ==
    \/ Tick
    \/ ClickThemeToggle
    \/ \E event \in KeysD : KeyDown(event)
    \/ TimerFire

SpecTheme == InitApp /\ [][NextTheme]_vars

\* The search box, the help modal and the keyboard.
NextApp ==
    \/ \E v \in SearchTexts : SetSearchQuery(v)
    \/ \E event \in KeyboardEvents : KeyDown(event)
    \/ CloseHelpModal
    \/ TimerFire

SpecApp == InitApp /\ [][NextApp]_vars

\* ----------------------------------------------------------- contact form
\* validateName
validateName(value) ==
    IF Len(value) < 2 THEN "Name must be at least 2 characters" ELSE undefined

\* The character classes of emailRegex: \s and @ against everything else.
IsSpaceChar(c) == c = " "
NotSpaceNorAt(c) == ~IsSpaceChar(c) /\ c # "@"

\* /^[^\s@]+@[^\s@]+\.[^\s@]+$/ as an automaton: 0 start, 1 in the local
\* part, 2 after "@", 3 in the text before the dot, 4 after a dot that is
\* taken as the separator, 5 in the last part (accepting).
emailRegexStep(q, c) ==
    (IF q \in {0, 1} /\ NotSpaceNorAt(c) THEN {1} ELSE {})
    \cup (IF q = 1 /\ c = "@" THEN {2} ELSE {})
    \cup (IF q \in {2, 3} /\ NotSpaceNorAt(c) THEN {3} ELSE {})
    \cup (IF q = 3 /\ c = "." THEN {4} ELSE {})
    \cup (IF q \in {4, 5} /\ NotSpaceNorAt(c) THEN {5} ELSE {})

RECURSIVE emailRegexRun(_, _)
emailRegexRun(qs, value) ==
    IF value = <<>> THEN qs
    ELSE emailRegexRun(UNION {emailRegexStep(q, Head(value)) : q \in qs}, Tail(value))

\* emailRegex.test(value)
emailRegexTest(value) == 5 \in emailRegexRun({0}, value)

\* validateEmail
validateEmail(value) ==
    IF ~emailRegexTest(value) THEN "Please enter a valid email address" ELSE undefined

\* Mutation: a message of exactly ten characters is refused.
validateMessage_Mutant(value) ==
    IF Len(value) <= 10 THEN "Message must be at least 10 characters" ELSE undefined

\* validateMessage
validateMessage(value) ==
    IF Len(value) < 10 THEN "Message must be at least 10 characters" ELSE undefined

\* validateForm and isFormValid on the values of the current render.
validateForm(n, e, m) ==
    [name |-> validateName(n), email |-> validateEmail(e), message |-> validateMessage(m)]

isFormValid(n, e, m) ==
    /\ validateForm(n, e, m).name = undefined
    /\ validateForm(n, e, m).email = undefined
    /\ validateForm(n, e, m).message = undefined

\* Mutation: the touched flags survive a submit.
touchedAfterSubmit_Mutant(flags) == flags

\* handleSubmit: setTouched({})
touchedAfterSubmit(flags) == {}

\* What the user can type into the three fields.
NameTexts == {<<"a">>, <<"a", "b">>, <<" ", " ">>}
EmailTexts ==
    { <<"a", "@", "b", ".", "c">>,
      <<"a", "@", "b">>,
      <<"a", "@", ".", "c">>,
      <<"a", " ", "@", "b", ".", "c">>,
      <<"a", "@", "b", "@", "c", ".", "d">>,
      <<"a", ".", "b", "@", "c", ".", "d", ".", "e">>,
      <<"a", "@", "b", ".">> }
MessageTexts ==
    { <<"0", "1", "2", "3", "4", "5", "6", "7", "8">>,
      <<"0", "1", "2", "3", "4", "5", "6", "7", "8", "9">> }
FieldNames == {"name", "email", "message"}

\* handleNameChange, handleEmailChange, handleMessageChange
HandleNameChange(value) ==
    /\ ~submitted
    /\ contactName' = value
    /\ errors' = IF "name" \in touched
                 THEN [errors EXCEPT !.name = validateName(value)] ELSE errors
    /\ lastOp' = "contactInput"
    /\ UNCHANGED <<todoVars, dragVars, storage, toastVars, envVars, appVars,
                   contactEmail, contactMessage, touched, submitted>>
    /\ UNCHANGED <<statsVars, counterVars>>

HandleEmailChange(value) ==
    /\ ~submitted
    /\ contactEmail' = value
    /\ errors' = IF "email" \in touched
                 THEN [errors EXCEPT !.email = validateEmail(value)] ELSE errors
    /\ lastOp' = "contactInput"
    /\ UNCHANGED <<todoVars, dragVars, storage, toastVars, envVars, appVars,
                   contactName, contactMessage, touched, submitted>>
    /\ UNCHANGED <<statsVars, counterVars>>

HandleMessageChange(value) ==
    /\ ~submitted
    /\ contactMessage' = value
    /\ errors' = IF "message" \in touched
                 THEN [errors EXCEPT !.message = validateMessage(value)] ELSE errors
    /\ lastOp' = "contactInput"
    /\ UNCHANGED <<todoVars, dragVars, storage, toastVars, envVars, appVars,
                   contactName, contactEmail, touched, submitted>>
    /\ UNCHANGED <<statsVars, counterVars>>

\* handleBlur
HandleBlur(field) ==
    /\ ~submitted
    /\ touched' = touched \cup {field}
    /\ errors' = validateForm(contactName, contactEmail, contactMessage)
    /\ lastOp' = "contactBlur"
    /\ UNCHANGED <<todoVars, dragVars, storage, toastVars, envVars, appVars,
                   contactName, contactEmail, contactMessage, submitted>>
    /\ UNCHANGED <<statsVars, counterVars>>

\* handleSubmit: the submit event of the form.
HandleSubmit ==
    /\ ~submitted
    /\ IF isFormValid(contactName, contactEmail, contactMessage)
       THEN /\ CanToast
            /\ submitted' = TRUE
            /\ contactName' = <<>>
            /\ contactEmail' = <<>>
            /\ contactMessage' = <<>>
            /\ touched' = touchedAfterSubmit(touched)
            /\ errors' = NoErrors
            /\ toasts' = ToastsAfterAdd(toasts, "Message sent successfully!", "success", now)
            /\ timers' = TimersAfterAdd(timers, now)
            /\ lastOp' = "contactSubmit"
       ELSE /\ lastOp' = "contactSubmitRejected"
            /\ UNCHANGED <<contactVars, toastVars>>
    /\ UNCHANGED <<todoVars, dragVars, storage, envVars, appVars>>
    /\ UNCHANGED <<statsVars, counterVars>>

\* "Send Another Message"
SendAnother ==
    /\ submitted
    /\ submitted' = FALSE
    /\ lastOp' = "contactNew"
    /\ UNCHANGED <<todoVars, dragVars, storage, toastVars, envVars, appVars,
                   contactName, contactEmail, contactMessage, errors, touched>>
    /\ UNCHANGED <<statsVars, counterVars>>

\* What the rendered form shows: an error under a field, the submit button.
errorShown(field) == field \in touched /\ errors[field] # undefined
submitDisabled == ~isFormValid(contactName, contactEmail, contactMessage)

NextContact ==
    \/ \E v \in NameTexts : HandleNameChange(v)
    \/ \E v \in EmailTexts : HandleEmailChange(v)
    \/ \E v \in MessageTexts : HandleMessageChange(v)
    \/ \E f \in FieldNames : HandleBlur(f)
    \/ HandleSubmit
    \/ SendAnother
    \/ TimerFire

SpecContact == Init /\ [][NextContact]_vars

\* ------------------------------------------------------- manual reordering
\* A list left by an earlier session: the todo with id 2 has been deleted
\* after the last reorder (or never existed), the todos 3 and 4 were added
\* after it.
ReorderTodos ==
    << [id |-> 1, text |-> <<"a">>, completed |-> FALSE, dueDate |-> undefined,
        category |-> undefined, priority |-> "low"],
       [id |-> 3, text |-> <<"B">>, completed |-> FALSE, dueDate |-> undefined,
        category |-> undefined, priority |-> "low"],
       [id |-> 4, text |-> <<"a", "B">>, completed |-> FALSE, dueDate |-> undefined,
        category |-> undefined, priority |-> "low"] >>

ReorderStorages ==
    { MountEffects(ReorderTodos, order, "all", "all", "all", "all", "manual") :
        order \in {<<>>, <<1, 2>>, <<2, 1>>} }

InitReorder == \E store \in ReorderStorages : OpenedOn(store, 5)

\* Drag and drop and Alt+Arrow on the displayed todos, with and without a
\* search text that hides some of them.
NextReorder ==
    \/ \E v \in SearchTexts : SetSearchQuery(v)
    \/ \E i \in 1..Len(ReorderTodos) : HandleDragStart(i)
    \/ \E i \in 1..Len(ReorderTodos), position \in {"before", "after"} :
          HandleDragOver(i, position)
    \/ \E i \in 1..Len(ReorderTodos) : HandleDrop(i)
    \/ HandleDragEnd
    \/ \E k \in 1..Len(ReorderTodos), key \in {"ArrowUp", "ArrowDown"} :
          HandleTodoKeyDown(k, key)
    \/ TimerFire

SpecReorder == InitReorder /\ [][NextReorder]_vars

\* ================================================================ claims
\* Vocabulary of the statements below.
IsBlank(s) == \A i \in 1..Len(s) : s[i] = " "

\* t is s without its leading and trailing blanks.
IsTrimOf(t, s) ==
    /\ t = <<>> \/ (t[1] # " " /\ t[Len(t)] # " ")
    /\ \E i \in 0..(Len(s) - Len(t)) :
          /\ SubSeq(s, i + 1, i + Len(t)) = t
          /\ \A j \in 1..Len(s) : (j <= i \/ j > i + Len(t)) => s[j] = " "

\* s without its k-th element.
RemoveAt(s, k) == SubSeq(s, 1, k - 1) \o SubSeq(s, k + 1, Len(s))

\* The queue grew by exactly one toast of the given type, at the end.
OneMoreToast(before, after, type) ==
    /\ Len(after) = Len(before) + 1
    /\ SubSeq(after, 1, Len(before)) = before
    /\ after[Len(after)].type = type

\* C1: no two todos of the in-memory list have the same identifier.
C1_UniqueIds ==
    \A i, j \in 1..Len(todos) : todos[i].id = todos[j].id => i = j

\* C2: after every handler and its persistence effects, storage key "todos"
\* holds the serialization of the in-memory todo list and key "todo-order"
\* the serialization of the manual order.
C2_PersistedSnapshot ==
    /\ storage[STORAGE_KEY] = StringifyTodos(todos)
    /\ storage[ORDER_STORAGE_KEY] = StringifyOrder(todoOrder)

C2_Witness ==
    /\ Len(todos) = 2
    /\ todoOrder # <<>>
    /\ todos[1].completed /\ todos[2].text = <<"B">>
    /\ lastOp \in {"drop", "moveUp", "moveDown"}

\* C3: a toast that is in the queue is eventually out of the queue, with no
\* help from the user: only the timer callbacks are assumed to run.
C3_ToastEventuallyRemoved ==
    \A id \in 1..MaxNow :
        (\E k \in 1..Len(toasts) : toasts[k].id = id)
            ~> ~(\E k \in 1..Len(toasts) : toasts[k].id = id)

C3_Witness == lastOp = "timer" /\ toasts = <<>> /\ timers = <<>>

\* C4: the close button of a toast removes exactly that toast from the
\* queue; the others stay, in the same order.
C4_CloseRemovesExactlyOne ==
    [][\A k \in 1..MaxToasts : CloseToast(k) => toasts' = RemoveAt(toasts, k)]_vars

\* C5: addTodo on a non-blank input appends one todo built from the form
\* (trimmed text, not completed, the selected due date, category and
\* priority, absent when not selected), keeps the existing todos, resets the
\* form and emits one success toast.
C5_AddAppendsOneTodo ==
    [][(AddTodo /\ ~IsBlank(inputValue)) =>
          /\ Len(todos') = Len(todos) + 1
          /\ SubSeq(todos', 1, Len(todos)) = todos
          /\ IsTrimOf(todos'[Len(todos')].text, inputValue)
          /\ todos'[Len(todos')].completed = FALSE
          /\ todos'[Len(todos')].dueDate =
                (IF dueDateValue = "" THEN undefined ELSE dueDateValue)
          /\ todos'[Len(todos')].category =
                (IF categoryValue = "" THEN undefined ELSE categoryValue)
          /\ todos'[Len(todos')].priority = priorityValue
          /\ inputValue' = <<>> /\ dueDateValue' = "" /\ categoryValue' = ""
          /\ priorityValue' = "low"
          /\ OneMoreToast(toasts, toasts', "success")]_vars

C5_Witness ==
    /\ lastOp = "addTodo"
    /\ Len(todos) = 2
    /\ todos[1].dueDate = undefined /\ todos[1].category = undefined
    /\ todos[2].dueDate = "1970-01-03" /\ todos[2].category = "work"
    /\ todos[2].priority = "high" /\ todos[2].text = <<"a">>
    /\ priorityValue = "low"

\* C6: addTodo on an empty or whitespace-only input changes neither the todo
\* list, nor the manual order, nor the form fields, nor the toast queue.
C6_BlankAddRejected ==
    [][(AddTodo /\ IsBlank(inputValue)) =>
          UNCHANGED <<todos, todoOrder, inputValue, dueDateValue, categoryValue,
                      priorityValue, toasts>>]_vars

C6_Witness ==
    /\ lastOp = "addTodoRejected"
    /\ inputValue = <<" ">>
    /\ dueDateValue # "" /\ categoryValue # "" /\ priorityValue = "high"
    /\ Len(todos) = 1

\* C7: toggleTodo(id) inverts the completed flag of the todos carrying that
\* id, changes no other field, no todo with another id, not the length nor
\* the order of the list; applying it again restores the list.
C7_ToggleInvertsOnlyCompleted ==
    [][\A i \in 1..MaxTodos : ToggleTodo(i) =>
          /\ Len(todos') = Len(todos)
          /\ \A j \in 1..Len(todos) :
                /\ [todos'[j] EXCEPT !.completed = todos[j].completed] = todos[j]
                /\ todos'[j].completed =
                      (todos[j].completed # (todos[j].id = todos[i].id))
          /\ toggleTodo(todos', todos[i].id) = todos]_vars

C7_Witness ==
    /\ lastOp = "toggleTodo"
    /\ Len(todos) = 2
    /\ todos[1].id # todos[2].id
    /\ todos[1].completed /\ ~todos[2].completed

\* C8: deleteTodo removes the todo whose Delete button was pressed; every
\* other todo stays, unmodified and in the same order, so the list is
\* shorter by exactly one.
C8_DeleteRemovesExactlyOne ==
    [][\A i \in 1..MaxTodos : DeleteTodo(i) => todos' = RemoveAt(todos, i)]_vars

\* C9: saveEdit with a blank edit value changes no todo, leaves edit mode
\* and emits no toast; with a non-blank value it sets the text of the todos
\* carrying the edited id to the trimmed value and nothing else, leaves edit
\* mode and emits one success toast; cancelEdit changes no todo.
C9_SaveEdit ==
    [][/\ (SaveEdit /\ IsBlank(editValue)) =>
             /\ todos' = todos
             /\ editingId' = null /\ editValue' = <<>>
             /\ toasts' = toasts
       /\ (SaveEdit /\ ~IsBlank(editValue)) =>
             /\ Len(todos') = Len(todos)
             /\ \A j \in 1..Len(todos) :
                   IF todos[j].id = editingId
                   THEN /\ IsTrimOf(todos'[j].text, editValue)
                        /\ [todos'[j] EXCEPT !.text = todos[j].text] = todos[j]
                   ELSE todos'[j] = todos[j]
             /\ editingId' = null /\ editValue' = <<>>
             /\ OneMoreToast(toasts, toasts', "success")
       /\ CancelEdit => (todos' = todos /\ toasts' = toasts)]_vars

C9_Witness ==
    /\ lastOp = "saveEdit"
    /\ Len(todos) = 2
    /\ todos[1].id # todos[2].id
    /\ todos[1].text = <<"a">> /\ todos[2].text = <<"B">>
    /\ editingId = null

\* C10: the displayed list holds exactly the todos that satisfy the search
\* text, the completion filter, the due-date filter (today, overdue,
\* upcoming by the calendar date of the user), the category filter and the
\* priority filter, each as often as it is in the todo list.
LocalDay == (now + tzOffset) \div MS_PER_DAY

SatisfiesDueDate(todo) ==
    \/ dueDateFilter = "all"
    \/ /\ todo.dueDate # undefined
       /\ \/ dueDateFilter = "today" /\ DayNumber(todo.dueDate) = LocalDay
          \/ dueDateFilter = "overdue" /\ DayNumber(todo.dueDate) < LocalDay
          \/ dueDateFilter = "upcoming" /\ DayNumber(todo.dueDate) > LocalDay

SatisfiesAllFacets(todo) ==
    /\ \E i \in 0..(Len(todo.text) - Len(searchQuery)) :
          \A j \in 1..Len(searchQuery) :
              LowerChar(todo.text[i + j]) = LowerChar(searchQuery[j])
    /\ \/ filter = "all"
       \/ filter = "active" /\ ~todo.completed
       \/ filter = "completed" /\ todo.completed
    /\ SatisfiesDueDate(todo)
    /\ categoryFilter = "all" \/ todo.category = categoryFilter
    /\ \/ priorityFilter = "all"
       \/ priorityFilter \in {"high", "high-only"} /\ todo.priority = "high"
       \/ priorityFilter = "medium-plus" /\ todo.priority \in {"high", "medium"}

CountIn(s, x) == Cardinality({i \in 1..Len(s) : s[i] = x})

C10_DisplayedIffAllFacets ==
    /\ \A i \in 1..Len(todos) :
          CountIn(filteredTodos, todos[i]) =
              (IF SatisfiesAllFacets(todos[i]) THEN CountIn(todos, todos[i]) ELSE 0)
    /\ \A k \in 1..Len(filteredTodos) : CountIn(todos, filteredTodos[k]) > 0

\* C11: a page reload restores the todo list, the manual order, the
\* completion, due-date, category and priority filters and the sort mode
\* that were in effect before it; on the first visit (empty storage) the
\* list is empty, every filter is "all" and the sort mode is "manual".
C11_ReloadRestores ==
    /\ (lastOp = "init" =>
           /\ todos = <<>>
           /\ todoOrder = <<>>
           /\ filter = "all" /\ dueDateFilter = "all" /\ categoryFilter = "all"
           /\ priorityFilter = "all" /\ sortBy = "manual")
    /\ [][Reload => UNCHANGED <<todos, todoOrder, filter, dueDateFilter,
                                categoryFilter, priorityFilter, sortBy>>]_vars

C11_Witness ==
    /\ lastOp = "reload"
    /\ Len(todos) = 2
    /\ todos[1].completed /\ todos[1].category = undefined
    /\ todos[2].category = "work" /\ todos[2].dueDate # undefined
    /\ todoOrder # <<>>
    /\ filter = "completed" /\ dueDateFilter = "upcoming" /\ categoryFilter = "work"
    /\ priorityFilter = "medium-plus" /\ sortBy = "created"

\* C12: the theme is light or dark; a toggle by the header button or by the
\* Ctrl/Cmd+D shortcut switches it to the other value and appends exactly one
\* info toast whose message names the theme in effect after the toggle.
C12_ThemeToggle ==
    /\ theme \in {"light", "dark"}
    /\ [][(ClickThemeToggle
           \/ \E event \in KeysD :
                 /\ (IF isMac THEN event.metaKey ELSE event.ctrlKey)
                 /\ KeyDown(event)) =>
              /\ theme' # theme
              /\ OneMoreToast(toasts, toasts', "info")
              /\ toasts'[Len(toasts')].message =
                    (IF theme' = "dark" THEN "Switched to dark mode"
                     ELSE "Switched to light mode")]_vars

C12_Witness ==
    /\ lastOp = "keydown"
    /\ actionsRun = <<"handleToggleTheme">>
    /\ Len(toasts) = 2
    /\ toasts[1].message = "Switched to dark mode"
    /\ toasts[2].message = "Switched to light mode"
    /\ theme = "light"

\* C13: a submit is accepted exactly when the name has at least two
\* characters, the email is made of a non-empty text, "@", a non-empty text,
\* ".", a non-empty text, none of the texts holding a space or an "@", and
\* the message has at least ten characters; a submit that is not accepted
\* changes no field, touched flag, error or the submitted flag and emits no
\* toast.
EmailShape(s) ==
    \E i, j \in 1..Len(s) :
        /\ 1 < i /\ i + 1 < j /\ j < Len(s)
        /\ s[i] = "@" /\ s[j] = "."
        /\ \A k \in 1..Len(s) : s[k] # " " /\ (s[k] = "@" => k = i)

FormAcceptable ==
    /\ Len(contactName) >= 2
    /\ EmailShape(contactEmail)
    /\ Len(contactMessage) >= 10

C13_SubmitAcceptedIffValid ==
    [][HandleSubmit =>
          /\ submitted' = FormAcceptable
          /\ ~FormAcceptable => UNCHANGED <<contactVars, toasts>>]_vars

C13_Witness ==
    /\ lastOp = "contactSubmitRejected"
    /\ Len(contactName) >= 2
    /\ contactEmail = <<"a", ".", "b", "@", "c", ".", "d", ".", "e">>
    /\ Len(contactMessage) = 9
    /\ touched = FieldNames
    /\ ~submitted

\* C14: a submit of a valid form sets the submitted state, empties the three
\* fields, clears the touched flags and the errors and emits one success
\* toast; "Send Another Message" then shows the form with empty fields, no
\* error and a disabled submit button.
C14_ValidSubmitResets ==
    /\ [][(HandleSubmit /\ isFormValid(contactName, contactEmail, contactMessage)) =>
             /\ submitted'
             /\ contactName' = <<>> /\ contactEmail' = <<>> /\ contactMessage' = <<>>
             /\ touched' = {}
             /\ \A f \in FieldNames : errors'[f] = undefined
             /\ OneMoreToast(toasts, toasts', "success")]_vars
    /\ [][SendAnother =>
             /\ ~submitted'
             /\ contactName' = <<>> /\ contactEmail' = <<>> /\ contactMessage' = <<>>
             /\ \A f \in FieldNames : ~errorShown(f)'
             /\ submitDisabled']_vars

C14_Witness ==
    /\ lastOp = "contactNew"
    /\ ~submitted
    /\ Len(toasts) = 1 /\ toasts[1].message = "Message sent successfully!"

\* The keydown events of the Escape key, on any element, with any modifiers.
KeysEscape == {event \in KeyboardEvents : event.key = "Escape"}

\* C15 as claimed: with the help modal closed and a non-empty search query,
\* an Escape keydown empties the search query.
C15_EscapeClearsSearch ==
    [][\A event \in KeysEscape :
          (~isHelpModalOpen /\ searchQuery # <<>> /\ KeyDown(event)) =>
              searchQuery' = <<>>]_vars

\* C15 as amended: with the help modal closed and a non-empty search query,
\* an Escape keydown with neither Ctrl nor Meta held, whose target is not an
\* input, textarea, select or content-editable element, empties the search
\* query.
C15_EscapeOutsideInputsClearsSearch ==
    [][\A event \in KeysEscape :
          (/\ ~isHelpModalOpen /\ searchQuery # <<>>
           /\ ~event.ctrlKey /\ ~event.metaKey
           /\ event.target.tagName \notin {"INPUT", "TEXTAREA", "SELECT"}
           /\ ~event.target.isContentEditable
           /\ KeyDown(event)) =>
              searchQuery' = <<>>]_vars

C15_Witness ==
    /\ lastOp = "searchCleared"
    /\ actionsRun = <<"clearSearchAndCloseModals">>
    /\ searchQuery = <<>>
    /\ ~isHelpModalOpen

\* C16: one keydown runs at most one shortcut action; "?" and Escape run
\* nothing (the help modal is not opened, the search query is not cleared)
\* when the target is an input, textarea, select or content-editable
\* element or when Ctrl or Meta is held; N and D with the Ctrl/Cmd modifier
\* of the platform run their action on every target.
TypingTarget(element) ==
    element.tagName \in {"INPUT", "TEXTAREA", "SELECT"} \/ element.isContentEditable

PlatformModifier(event) == IF isMac THEN event.metaKey ELSE event.ctrlKey

C16_ShortcutDispatch ==
    /\ Len(actionsRun) <= 1
    /\ [][\A event \in KeyboardEvents :
             (/\ event.key \in {"?", "Escape"}
              /\ TypingTarget(event.target) \/ event.ctrlKey \/ event.metaKey
              /\ KeyDown(event)) =>
                 /\ \A i \in 1..Len(actionsRun') :
                       actionsRun'[i] \notin {"openHelpModal", "clearSearchAndCloseModals"}
                 /\ isHelpModalOpen' => isHelpModalOpen
                 /\ searchQuery' = searchQuery]_vars
    /\ [][\A event \in KeyboardEvents :
             (PlatformModifier(event) /\ event.key \in {"n", "N", "d", "D"}
              /\ KeyDown(event)) =>
                 IF event.key \in {"n", "N"}
                 THEN actionsRun' = <<"focusTodoInput">> /\ theme' = theme
                 ELSE actionsRun' = <<"handleToggleTheme">> /\ theme' # theme]_vars

C16_Witness ==
    /\ lastOp = "keydown"
    /\ actionsRun = <<>>
    /\ searchQuery # <<>>
    /\ isHelpModalOpen
    /\ theme = "dark" /\ ~isMac

\* C17: in manual sort mode the ordered list holds the todos of the list,
\* first those whose id is not in the manual order, newest (highest id)
\* first, then those whose id is in the manual order, following the
\* positions of their ids in it; a todo that has just been added is the
\* first of the ordered list.
InManualOrder(todo) == \E p \in 1..Len(todoOrder) : todoOrder[p] = todo.id

ManualOrderShape ==
    sortBy = "manual" =>
        /\ Len(orderedTodos) = Len(todos)
        /\ \A i \in 1..Len(todos) :
              CountIn(orderedTodos, todos[i]) = CountIn(todos, todos[i])
        /\ \A i, j \in 1..Len(orderedTodos) :
              i < j =>
                 LET a == orderedTodos[i]
                     b == orderedTodos[j]
                 IN /\ InManualOrder(a) => InManualOrder(b)
                    /\ (~InManualOrder(a) /\ ~InManualOrder(b)) => a.id >= b.id
                    /\ (InManualOrder(a) /\ InManualOrder(b)) =>
                          \E p, q \in 1..Len(todoOrder) :
                              p <= q /\ todoOrder[p] = a.id /\ todoOrder[q] = b.id

C17_ManualOrder ==
    /\ []ManualOrderShape
    /\ [][(sortBy = "manual" /\ ~IsBlank(inputValue) /\ AddTodo) =>
             OrderedTodosOf(todos', sortBy', todoOrder')[1] = todos'[Len(todos')]]_vars

\* C18: in manual sort mode Alt+ArrowUp (Alt+ArrowDown) on the displayed item
\* k that has an item above (below) it exchanges the two in the displayed
\* list and leaves every other displayed item where it was; on the first
\* (last) item the key changes nothing.
SwapAt(s, a, b) ==
    [i \in 1..Len(s) |-> IF i = a THEN s[b] ELSE IF i = b THEN s[a] ELSE s[i]]

C18_AltArrowSwapsNeighbours ==
    [][\A k \in 1..Len(filteredTodos) :
          /\ (sortBy = "manual" /\ k > 1 /\ HandleTodoKeyDown(k, "ArrowUp")) =>
                filteredTodos' = SwapAt(filteredTodos, k, k - 1)
          /\ (sortBy = "manual" /\ k < Len(filteredTodos)
              /\ HandleTodoKeyDown(k, "ArrowDown")) =>
                filteredTodos' = SwapAt(filteredTodos, k, k + 1)
          /\ (sortBy = "manual" /\ k = 1 /\ HandleTodoKeyDown(k, "ArrowUp")) =>
                UNCHANGED <<todos, todoOrder, toasts>>
          /\ (sortBy = "manual" /\ k = Len(filteredTodos)
              /\ HandleTodoKeyDown(k, "ArrowDown")) =>
                UNCHANGED <<todos, todoOrder, toasts>>]_vars

\* C19: in manual sort mode, after a dragged todo has been dropped on
\* another todo, the dragged todo is displayed immediately before the target
\* when the drop position is "before" and immediately after it otherwise,
\* and one "Todo reordered" info toast has been added.
Adjacent(s, first, second) ==
    \E p \in 1..(Len(s) - 1) : s[p] = first /\ s[p + 1] = second

C19_DropPlacesNextToTarget ==
    [][\A i, d \in 1..Len(todos) :
          (/\ sortBy = "manual"
           /\ d # i /\ todos[d].id = draggedRef /\ Matches(todos[d])
           /\ HandleDrop(i)) =>
              /\ LET shown == filteredTodos'
                 IN IF dropPosition = "before"
                    THEN Adjacent(shown, todos[d], todos[i])
                    ELSE Adjacent(shown, todos[i], todos[d])
              /\ OneMoreToast(toasts, toasts', "info")
              /\ toasts'[Len(toasts')].message = "Todo reordered"]_vars

\* C20: in manual sort mode a drop leaves the todos themselves as they are
\* and, among all todos but the dragged one, the order in which they are
\* displayed; a drop of a todo on itself or of data that does not parse as
\* an id changes neither the manual order nor the toast queue.
RECURSIVE Others(_, _)
Others(s, id) ==
    IF s = <<>> THEN <<>>
    ELSE (IF Head(s).id = id THEN <<>> ELSE <<Head(s)>>) \o Others(Tail(s), id)

C20_DropKeepsOthersInOrder ==
    [][\A i \in 1..Len(todos) :
          (sortBy = "manual" /\ HandleDrop(i)) =>
              /\ todos' = todos
              /\ IF dataTransfer = NaN \/ dataTransfer = todos[i].id
                 THEN todoOrder' = todoOrder /\ toasts' = toasts
                 ELSE Others(orderedTodos', dataTransfer)
                         = Others(orderedTodos, dataTransfer)]_vars

\* ------------------------------------------------------------------ streak
\* The clock readings of the days 0..MaxDay at which the user acts: half an
\* hour after and half an hour before midnight UTC.
MaxDay == 2
StreakInstants ==
    {d * MS_PER_DAY + h : d \in 0..MaxDay, h \in {MS_PER_HOUR \div 2, 23 * MS_PER_HOUR + MS_PER_HOUR \div 2}}

\* Time passes with the page left open; the toast timers have long fired.
PassTime(t) ==
    /\ Idle
    /\ timers = <<>>
    /\ t > now
    /\ now' = t
    /\ lastOp' = "passTime"
    /\ UNCHANGED <<todoVars, dragVars, storage, toastVars, tzOffset, pageVars>>

InitStreak == OpenedOn(EmptyStorage, MS_PER_HOUR \div 2)

\* Adding, completing, editing and deleting todos over several days, with
\* page reloads.
NextStreak ==
    \/ \E t \in StreakInstants : PassTime(t)
    \/ SetInputValue(<<"a">>)
    \/ AddTodo
    \/ \E i \in 1..MaxTodos : ToggleTodo(i)
    \/ \E i \in 1..MaxTodos : DeleteTodo(i)
    \/ \E i \in 1..MaxTodos : StartEdit(i)
    \/ SetEditValue(<<"b">>)
    \/ SaveEdit
    \/ TimerFire
    \/ Reload

SpecStreak == InitStreak /\ [][NextStreak]_vars

\* ----------------------------------------------------------------- Counter
MaxClicks == 12

\* Mutation: the counter stops at zero.
decrement_Mutant(c) == IF c > 0 THEN c - 1 ELSE 0

\* onClick of counter-decrement: setCount(count - 1)
decrement(c) == c - 1

\* onClick of counter-increment: setCount(count + 1)
increment(c) == c + 1

Increment ==
    /\ incs + decs < MaxClicks
    /\ count' = increment(count)
    /\ incs' = incs + 1
    /\ lastOp' = "increment"
    /\ UNCHANGED <<todoVars, dragVars, storage, toastVars, envVars, appVars,
                   contactVars, statsVars, decs>>

Decrement ==
    /\ incs + decs < MaxClicks
    /\ count' = decrement(count)
    /\ decs' = decs + 1
    /\ lastOp' = "decrement"
    /\ UNCHANGED <<todoVars, dragVars, storage, toastVars, envVars, appVars,
                   contactVars, statsVars, incs>>

\* onClick of counter-reset: setCount(0)
ResetCounter ==
    /\ count' = 0
    /\ incs' = 0
    /\ decs' = 0
    /\ lastOp' = "reset"
    /\ UNCHANGED <<todoVars, dragVars, storage, toastVars, envVars, appVars,
                   contactVars, statsVars>>

NextCounter ==
    \/ Increment
    \/ Decrement
    \/ ResetCounter

SpecCounter == Init /\ [][NextCounter]_vars

\* --------------------------------------------------------------- help modal
\* The elements of the rendered help modal a click can be targeted at: the
\* backdrop, the modal body inside it, and the title, the list and the close
\* button inside the body.
BACKDROP == "keyboard-shortcuts-backdrop"
CLOSE_BUTTON == "keyboard-shortcuts-close"
ModalElements ==
    {BACKDROP, "keyboard-shortcuts-modal", "keyboard-shortcuts-title",
     "keyboard-shortcuts-list", CLOSE_BUTTON}

\* Mutation: a click anywhere in the backdrop's subtree closes the modal.
handleBackdropClick_Mutant(open, target, currentTarget) == FALSE

\* handleBackdropClick: isOpen after the handler has run.
handleBackdropClick(open, target, currentTarget) ==
    IF target = currentTarget THEN FALSE ELSE open

\* One click inside the open help modal: the onClick of the close button
\* runs when the button is the target, then the click bubbles to the
\* backdrop, whose onClick is handleBackdropClick.
ClickHelpModal(target) ==
    /\ isHelpModalOpen
    /\ LET afterButton == IF target = CLOSE_BUTTON THEN FALSE ELSE isHelpModalOpen
       IN isHelpModalOpen' = handleBackdropClick(afterButton, target, BACKDROP)
    /\ lastOp' = "clickHelpModal"
    /\ UNCHANGED <<todoVars, dragVars, storage, toastVars, envVars, theme, isMac,
                   actionsRun, contactVars>>
    /\ UNCHANGED <<statsVars, counterVars>>

\* The keydown events that open and close the help modal.  While the modal
\* is open the listener of useKeyboardShortcuts, registered once on mount,
\* precedes the modal's handleEscape, which is registered again each time
\* isOpen changes; KeyDown runs both on the state of the last render.
KeysModal == {event \in KeyboardEvents : event.key \in {"?", "Escape"}}

NextModal ==
    \/ \E v \in SearchTexts : SetSearchQuery(v)
    \/ \E event \in KeysModal : KeyDown(event)
    \/ \E target \in ModalElements : ClickHelpModal(target)

SpecModal == InitApp /\ [][NextModal]_vars

\* ------------------------------------------------------------ priority sort
\* The list of one session in which todos of every priority are added and
\* the sort mode is switched between "priority" and "created".
NextPriority ==
    \/ Tick
    \/ \E v \in {<<"a">>, <<"b">>} : SetInputValue(v)
    \/ \E v \in PriorityType : SetPriorityValue(v)
    \/ AddTodo
    \/ \E m \in {"priority", "created"} : SetSortBy(m)
    \/ TimerFire

SpecPriority == Init /\ [][NextPriority]_vars

\* The ordered list holds every todo as often as the todo list does.
IsPermutationOfTodos(s) ==
    /\ Len(s) = Len(todos)
    /\ \A i \in 1..Len(todos) : CountIn(s, todos[i]) = CountIn(todos, todos[i])

PriorityRank(todo) ==
    CASE todo.priority = "high" -> 0
      [] todo.priority = "medium" -> 1
      [] OTHER -> 2

\* High before medium before low, and ids never ascending within one
\* priority.
PrioritySortShape ==
    sortBy = "priority" =>
        /\ IsPermutationOfTodos(orderedTodos)
        /\ \A p, q \in 1..Len(orderedTodos) :
              p < q =>
                  /\ PriorityRank(orderedTodos[p]) <= PriorityRank(orderedTodos[q])
                  /\ orderedTodos[p].priority = orderedTodos[q].priority =>
                        orderedTodos[p].id >= orderedTodos[q].id

\* C21: in priority sort mode the ordered list is a permutation of the todo
\* list, every high-priority todo precedes every medium one and every medium
\* one every low one, and of two todos of equal priority the newer one, the
\* one with the higher id, comes first.
C21_PrioritySort ==
    sortBy = "priority" =>
        /\ IsPermutationOfTodos(orderedTodos)
        /\ \A p, q \in 1..Len(orderedTodos) :
              p < q =>
                  /\ PriorityRank(orderedTodos[p]) <= PriorityRank(orderedTodos[q])
                  /\ orderedTodos[p].priority = orderedTodos[q].priority =>
                        orderedTodos[p].id > orderedTodos[q].id

\* C22: with the help modal open, one Escape keydown closes the modal and
\* leaves the search query as it is; with the modal closed again, an Escape
\* keydown on the document body without modifiers empties the search query.
\* A click on the close button or on the backdrop itself closes the modal,
\* a click on anything else inside the modal leaves it open, and no click
\* changes the search query.
C22_ModalEscapeAndClicks ==
    [][/\ \A event \in KeysEscape :
             (isHelpModalOpen /\ KeyDown(event)) =>
                 ~isHelpModalOpen' /\ searchQuery' = searchQuery
       /\ \A event \in KeysEscape :
             (/\ ~isHelpModalOpen
              /\ event.target.tagName = "BODY" /\ ~event.ctrlKey /\ ~event.metaKey
              /\ KeyDown(event)) =>
                 ~isHelpModalOpen' /\ searchQuery' = <<>>
       /\ \A target \in ModalElements :
             ClickHelpModal(target) =>
                 /\ isHelpModalOpen' = (target \notin {BACKDROP, CLOSE_BUTTON})
                 /\ searchQuery' = searchQuery]_vars

C22_Witness ==
    /\ lastOp = "keydown"
    /\ actionsRun = <<"clearSearchAndCloseModals">>
    /\ ~isHelpModalOpen
    /\ searchQuery # <<>>

\* C23: while lastCompletedDate is today, nothing done at that time changes
\* currentStreak; and a render after the todo list was set (adding,
\* toggling, editing, deleting, reloading) that has a completed todo while
\* lastCompletedDate is not today makes the streak currentStreak + 1 if
\* lastCompletedDate is the day before today, and 1 otherwise.
StreakEffectRuns ==
    lastOp' \in {"addTodo", "toggleTodo", "deleteTodo", "saveEdit", "reload"}

StreakFixedForToday ==
    [][(streakData.lastCompletedDate = getToday(now) /\ now' = now) =>
          streakData'.currentStreak = streakData.currentStreak]_vars

C23_DayStreak ==
    [][/\ (streakData.lastCompletedDate = getToday(now) /\ now' = now) =>
             streakData'.currentStreak = streakData.currentStreak
       /\ (/\ StreakEffectRuns
           /\ \E i \in 1..Len(todos') : todos'[i].completed
           /\ streakData.lastCompletedDate # getToday(now)) =>
              streakData'.currentStreak =
                  IF streakData.lastCompletedDate = getToday(now) - 1
                  THEN streakData.currentStreak + 1
                  ELSE 1]_vars

\* C24: the counter starts at 0 and always equals the number of increments
\* minus the number of decrements since the last reset; a reset yields 0,
\* an increment adds one and a decrement, also right after an increment and
\* also at or below zero, takes one away.
C24_Counter ==
    /\ lastOp = "init" => count = 0
    /\ [](count = incs - decs)
    /\ [][/\ ResetCounter => count' = 0
          /\ Increment => count' = count + 1
          /\ Decrement => count' = count - 1]_vars

C24_Witness ==
    /\ lastOp = "decrement"
    /\ incs = 1 /\ decs = 3
    /\ count = 0 - 2

====
